---- MODULE Spec2Model ----
(***************************************************************************)
(* Model of crates/oxc_formatter/src/formatter/printer/queue.rs: the       *)
(* Queue trait (pop / top / push / extend_back / pop_slice / skip_content  *)
(* / iter_content), its two implementations PrintQueue and FitsQueue, the  *)
(* QueueContentIterator and the FitsEndPredicate implementations.          *)
(*                                                                         *)
(* The two queues live in one memory record m = [print, fits]; a queue     *)
(* operation takes m and `self` ("print" or "fits"), as the trait methods  *)
(* take &mut self, and returns the memory after the call together with the *)
(* returned value.  A FitsQueue borrows the PrintQueue's slices: its       *)
(* StackedStack holds the number of borrowed frames and reads them from    *)
(* m.print.slices.                                                         *)
(***************************************************************************)
EXTENDS Naturals, Integers, Sequences, FiniteSets, TLC

(***************************************************************************)
(* Bounds of the model.                                                    *)
(***************************************************************************)
\* longest root document handed to PrintQueue::new
MaxLen == 2
\* number of push / extend_back calls in one behaviour
MaxPush == 1
\* longest document printed to exhaustion or measured by a fit check
MaxDoc == 3
\* longest element sequence fed to a fits-end predicate
MaxInput == 4
\* largest line width of a fit check
MaxWidth == 2
\* largest number of saved frames handed to FitsQueue::new
MaxSaved == 1

(***************************************************************************)
(* Document elements (FormatElement): tokens, tags, interned references.   *)
(***************************************************************************)
Token(text) == [type |-> "Token", text |-> text]
Tag(kind, start) == [type |-> "Tag", kind |-> kind, start |-> start]
Interned(id) == [type |-> "Interned", id |-> id]

\* a forced line break
HardLine == [type |-> "Line", mode |-> "Hard"]

StartEntry == Tag("Entry", TRUE)
EndEntry == Tag("Entry", FALSE)
StartGroup == Tag("Group", TRUE)
EndGroup == Tag("Group", FALSE)

TagKinds == {"Entry", "Group"}

\* The interned pool: Interned(id) refers to Pool[id].  An interned sequence
\* may be empty and may start with another interned reference.
Pool ==
  << <<>>,
     <<Token("b"), EndEntry>>,
     <<Interned(2), Token("c")>> >>

InternedIds == DOMAIN Pool

\* The elements root documents and pushed elements are drawn from.
Elements ==
  {Token("a"), StartEntry, EndEntry, StartGroup} \cup {Interned(i) : i \in InternedIds}

SlicesOver(E, n) == UNION {[1..k -> E] : k \in 0..n}
SlicesUpTo(n) == SlicesOver(Elements, n)

\* Option<T>: None is the empty sequence, Some(x) the one-element sequence.
None == <<>>
Some(x) == <<x>>

(***************************************************************************)
(* Stack<T> for Vec<T> and StackedStack (printer/stack.rs).                *)
(***************************************************************************)
VecTop(v) == IF v = <<>> THEN None ELSE Some(v[Len(v)])
VecPop(v) == IF v = <<>> THEN <<>> ELSE SubSeq(v, 1, Len(v) - 1)
VecPush(v, x) == Append(v, x)

\* StackedStack::with_vec(original, stack): a view of `original` frames of
\* the borrowed vector below the private frames `stack`.
StackedWithVec(original, stack) == [original |-> Len(original), stack |-> stack]

\* top: the last private frame, else the last borrowed frame
StackedTop(base, st) ==
  IF st.stack # <<>> THEN Some(st.stack[Len(st.stack)])
  ELSE IF st.original > 0 THEN Some(base[st.original])
  ELSE None

\* pop: the last private frame, else the view of the borrowed frames shrinks
StackedPop(st) ==
  IF st.stack # <<>> THEN [st EXCEPT !.stack = VecPop(st.stack)]
  ELSE IF st.original > 0 THEN [st EXCEPT !.original = st.original - 1]
  ELSE st

\* push: always onto the private frames
StackedPush(st, x) == [st EXCEPT !.stack = Append(st.stack, x)]

\* into_vec: the private frames
StackedIntoVec(st) == st.stack

(***************************************************************************)
(* PrintQueue and FitsQueue: construction and the trait's accessors.       *)
(***************************************************************************)
\* Mutant of PrintQueue::new: an empty root slice is stored as a frame.
PrintQueueNewStoresEmpty(slice) == [slices |-> <<slice>>, next_index |-> 0]

PrintQueueNew(slice) ==
  [slices |-> IF slice = <<>> THEN <<>> ELSE <<slice>>, next_index |-> 0]

PrintIsEmpty(pq) == pq.slices = <<>>

NoFits == [live |-> FALSE, stack |-> [original |-> 0, stack |-> <<>>], next_index |-> 0]

\* Mutant of FitsQueue::new: the index is not taken from the print queue.
FitsQueueNewAtZero(print_queue, saved) ==
  [live |-> TRUE,
   stack |-> StackedWithVec(print_queue.slices, saved),
   next_index |-> 0]

FitsQueueNew(print_queue, saved) ==
  [live |-> TRUE,
   stack |-> StackedWithVec(print_queue.slices, saved),
   next_index |-> print_queue.next_index]

FitsFinish(fq) == StackedIntoVec(fq.stack)

PrintStackTop(m) == VecTop(m.print.slices)
FitsStackTop(m) == StackedTop(m.print.slices, m.fits.stack)
StackTop(m, self) == IF self = "print" THEN PrintStackTop(m) ELSE FitsStackTop(m)

PrintStackPop(m) == [m EXCEPT !.print.slices = VecPop(m.print.slices)]
FitsStackPop(m) == [m EXCEPT !.fits.stack = StackedPop(m.fits.stack)]
StackPop(m, self) == IF self = "print" THEN PrintStackPop(m) ELSE FitsStackPop(m)

PrintStackPush(m, x) == [m EXCEPT !.print.slices = VecPush(m.print.slices, x)]
FitsStackPush(m, x) == [m EXCEPT !.fits.stack = StackedPush(m.fits.stack, x)]
StackPush(m, self, x) ==
  IF self = "print" THEN PrintStackPush(m, x) ELSE FitsStackPush(m, x)

PrintNextIndex(m) == m.print.next_index
FitsNextIndex(m) == m.fits.next_index
NextIndex(m, self) == IF self = "print" THEN PrintNextIndex(m) ELSE FitsNextIndex(m)

PrintSetNextIndex(m, index) == [m EXCEPT !.print.next_index = index]
\* Mutant of FitsQueue::set_next_index: the write also lands in the print queue.
FitsSetNextIndexShared(m, index) ==
  [m EXCEPT !.fits.next_index = index, !.print.next_index = index]
FitsSetNextIndex(m, index) == [m EXCEPT !.fits.next_index = index]
SetNextIndex(m, self, index) ==
  IF self = "print" THEN PrintSetNextIndex(m, index) ELSE FitsSetNextIndex(m, index)

\* All frames of a queue, bottom first.
Frames(m, self) ==
  IF self = "print" THEN m.print.slices
  ELSE SubSeq(m.print.slices, 1, m.fits.stack.original) \o m.fits.stack.stack

(***************************************************************************)
(* The Queue trait's provided methods.  Each returns                       *)
(*   [m |-> memory after the call, res |-> returned value, panic |-> msg]  *)
(* where panic = "" unless the call panics.                                *)
(***************************************************************************)
Ret(m, res) == [m |-> m, res |-> res, panic |-> ""]
Panic(m, msg) == [m |-> m, res |-> None, panic |-> msg]

\* Mutant of Queue::pop: the index is not reset when the frame is removed.
PopNoReset(m, self) ==
  LET top == StackTop(m, self) IN
  IF top = None THEN Ret(m, None)
  ELSE
    LET top_slice == top[1]
        next_index == NextIndex(m, self)
    IN
      IF next_index >= Len(top_slice) THEN Panic(m, "index out of bounds")
      ELSE IF next_index + 1 = Len(top_slice)
        THEN Ret(StackPop(m, self), Some(top_slice[next_index + 1]))
        ELSE Ret(SetNextIndex(m, self, next_index + 1), Some(top_slice[next_index + 1]))

\* Mutant of Queue::pop: the end of the frame is tested one element late
\* (`next_index == top_slice.len()`).
PopLateFrameEnd(m, self) ==
  LET top == StackTop(m, self) IN
  IF top = None THEN Ret(m, None)
  ELSE
    LET top_slice == top[1]
        next_index == NextIndex(m, self)
    IN
      IF next_index >= Len(top_slice) THEN Panic(m, "index out of bounds")
      ELSE IF next_index = Len(top_slice)
        THEN Ret(SetNextIndex(StackPop(m, self), self, 0), Some(top_slice[next_index + 1]))
        ELSE Ret(SetNextIndex(m, self, next_index + 1), Some(top_slice[next_index + 1]))

\* Mutant of Queue::pop: the frame whose last element is taken stays on the
\* stack.
PopKeepsExhaustedFrame(m, self) ==
  LET top == StackTop(m, self) IN
  IF top = None THEN Ret(m, None)
  ELSE
    LET top_slice == top[1]
        next_index == NextIndex(m, self)
    IN
      IF next_index >= Len(top_slice) THEN Panic(m, "index out of bounds")
      ELSE Ret(SetNextIndex(m, self, next_index + 1), Some(top_slice[next_index + 1]))

Pop(m, self) ==
  LET top == StackTop(m, self) IN
  IF top = None THEN Ret(m, None)
  ELSE
    LET top_slice == top[1]
        next_index == NextIndex(m, self)
    IN
      IF next_index >= Len(top_slice) THEN Panic(m, "index out of bounds")
      ELSE IF next_index + 1 = Len(top_slice)
        THEN Ret(SetNextIndex(StackPop(m, self), self, 0), Some(top_slice[next_index + 1]))
        ELSE Ret(SetNextIndex(m, self, next_index + 1), Some(top_slice[next_index + 1]))

\* Mutant of Queue::top_with_interned: the first element of the top frame,
\* whatever the next index.
TopWithInternedFirstOfFrame(m, self) ==
  LET top == StackTop(m, self) IN
  IF top = None THEN Ret(m, None)
  ELSE IF top[1] = <<>> THEN Panic(m, "index out of bounds")
  ELSE Ret(m, Some(top[1][1]))

\* Mutant of Queue::top_with_interned: `.unwrap()` in place of `.map(..)`, an
\* exhausted queue is a panic.
TopWithInternedUnwraps(m, self) ==
  LET top == StackTop(m, self) IN
  IF top = None THEN Panic(m, "called Option::unwrap() on a None value")
  ELSE IF NextIndex(m, self) >= Len(top[1]) THEN Panic(m, "index out of bounds")
  ELSE Ret(m, Some(top[1][NextIndex(m, self) + 1]))

TopWithInterned(m, self) ==
  LET top == StackTop(m, self) IN
  IF top = None THEN Ret(m, None)
  ELSE IF NextIndex(m, self) >= Len(top[1]) THEN Panic(m, "index out of bounds")
  ELSE Ret(m, Some(top[1][NextIndex(m, self) + 1]))

\* interned.first()
First(slice) == IF slice = <<>> THEN None ELSE Some(slice[1])

RECURSIVE ResolveInterned(_)
ResolveInterned(top) ==
  IF top # None /\ top[1].type = "Interned"
    THEN ResolveInterned(First(Pool[top[1].id]))
    ELSE top

\* Mutant of Queue::top: `if let` in place of `while let`, one interned
\* reference is resolved and no more.
TopResolvesOnce(m, self) ==
  LET r == TopWithInterned(m, self) IN
  IF r.panic # "" THEN r
  ELSE IF r.res # None /\ r.res[1].type = "Interned"
    THEN Ret(m, First(Pool[r.res[1].id]))
  ELSE Ret(m, r.res)

Top(m, self) ==
  LET r == TopWithInterned(m, self) IN
  IF r.panic # "" THEN r ELSE Ret(m, ResolveInterned(r.res))

\* Mutant of Queue::extend_back: the next index is not reset to zero.
ExtendBackKeepIndex(m, self, elements) ==
  IF elements = <<>> THEN Ret(m, None)
  ELSE
    LET next_index == NextIndex(m, self)
        top == StackTop(m, self)
    IN
      IF top # None /\ next_index > Len(top[1])
        THEN Panic(StackPop(m, self), "slice index out of range")
      ELSE
        LET split ==
              IF top # None
                THEN StackPush(StackPop(m, self), self,
                               SubSeq(top[1], next_index + 1, Len(top[1])))
                ELSE m
        IN Ret(StackPush(split, self, elements), None)

\* Mutant of Queue::extend_back: without the `[]` arm, an empty slice is
\* pushed like any other.
ExtendBackStoresEmpty(m, self, elements) ==
  LET next_index == NextIndex(m, self)
      top == StackTop(m, self)
  IN
    IF top # None /\ next_index > Len(top[1])
      THEN Panic(StackPop(m, self), "slice index out of range")
    ELSE
      LET split ==
            IF top # None
              THEN StackPush(StackPop(m, self), self,
                             SubSeq(top[1], next_index + 1, Len(top[1])))
              ELSE m
      IN Ret(SetNextIndex(StackPush(split, self, elements), self, 0), None)

\* Mutant of Queue::extend_back: the top frame is split one element too far
\* (`&top[next_index + 1..]`).
ExtendBackSplitsPastNext(m, self, elements) ==
  IF elements = <<>> THEN Ret(m, None)
  ELSE
    LET next_index == NextIndex(m, self)
        top == StackTop(m, self)
    IN
      IF top # None /\ next_index + 1 > Len(top[1])
        THEN Panic(StackPop(m, self), "slice index out of range")
      ELSE
        LET split ==
              IF top # None
                THEN StackPush(StackPop(m, self), self,
                               SubSeq(top[1], next_index + 2, Len(top[1])))
                ELSE m
        IN Ret(SetNextIndex(StackPush(split, self, elements), self, 0), None)

\* `stack.pop()` runs before `&top[next_index..]` is evaluated: when the range
\* panics the top frame has already left the stack.
ExtendBack(m, self, elements) ==
  IF elements = <<>> THEN Ret(m, None)
  ELSE
    LET next_index == NextIndex(m, self)
        top == StackTop(m, self)
    IN
      IF top # None /\ next_index > Len(top[1])
        THEN Panic(StackPop(m, self), "slice index out of range")
      ELSE
        LET split ==
              IF top # None
                THEN StackPush(StackPop(m, self), self,
                               SubSeq(top[1], next_index + 1, Len(top[1])))
                ELSE m
        IN Ret(SetNextIndex(StackPush(split, self, elements), self, 0), None)

Push(m, self, element) == ExtendBack(m, self, <<element>>)

\* Mutant of Queue::pop_slice: the next index is not reset.
PopSliceKeepsIndex(m, self) ==
  LET top == StackTop(m, self) IN
  Ret(StackPop(m, self), top)

PopSlice(m, self) ==
  LET m1 == SetNextIndex(m, self, 0) IN
  LET top == StackTop(m1, self) IN
  Ret(StackPop(m1, self), top)

(***************************************************************************)
(* QueueContentIterator, iter_content and skip_content.                    *)
(***************************************************************************)
\* `top = queue.pop(); while let Some(Interned(i)) = top { queue.extend_back(i);
\* top = queue.pop() }`, entered with r the result of the first pop.
\* Mutant of the interned loop of QueueContentIterator::next: the content of
\* an interned reference is not queued.
RECURSIVE ExpandInternedDropsContent(_, _)
ExpandInternedDropsContent(r, self) ==
  IF r.panic # "" \/ r.res = None THEN r
  ELSE IF r.res[1].type # "Interned" THEN r
  ELSE ExpandInternedDropsContent(Pop(r.m, self), self)

RECURSIVE ExpandInterned(_, _)
ExpandInterned(r, self) ==
  IF r.panic # "" \/ r.res = None THEN r
  ELSE IF r.res[1].type # "Interned" THEN r
  ELSE
    LET e == ExtendBack(r.m, self, Pool[r.res[1].id]) IN
    IF e.panic # "" THEN e ELSE ExpandInterned(Pop(e.m, self), self)

\* QueueContentIterator::new
IterNew(kind) == [kind |-> kind, depth |-> 1]

\* Mutant of QueueContentIterator::next: a start tag of the kind does not
\* increase the depth.
IterNextNoNesting(m, self, kind, depth) ==
  IF depth = 0 THEN [m |-> m, depth |-> 0, res |-> None, panic |-> ""]
  ELSE
    LET r == ExpandInterned(Pop(m, self), self) IN
    IF r.panic # "" THEN [m |-> r.m, depth |-> depth, res |-> None, panic |-> r.panic]
    ELSE IF r.res = None
      THEN [m |-> r.m, depth |-> depth, res |-> None, panic |-> "Missing end signal."]
    ELSE
      LET element == r.res[1] IN
      IF element.type = "Tag" /\ element.kind = kind /\ ~element.start
        THEN IF depth - 1 = 0
               THEN [m |-> r.m, depth |-> 0, res |-> None, panic |-> ""]
             ELSE [m |-> r.m, depth |-> depth - 1, res |-> Some(element), panic |-> ""]
        ELSE [m |-> r.m, depth |-> depth, res |-> Some(element), panic |-> ""]

\* Mutant of QueueContentIterator::next: an exhausted queue ends the iteration
\* (`top?` in place of `top.expect(..)`).
IterNextEndsOnExhaustion(m, self, kind, depth) ==
  IF depth = 0 THEN [m |-> m, depth |-> 0, res |-> None, panic |-> ""]
  ELSE
    LET r == ExpandInterned(Pop(m, self), self) IN
    IF r.panic # "" THEN [m |-> r.m, depth |-> depth, res |-> None, panic |-> r.panic]
    ELSE IF r.res = None
      THEN [m |-> r.m, depth |-> depth, res |-> None, panic |-> ""]
    ELSE
      LET element == r.res[1] IN
      IF element.type = "Tag" /\ element.kind = kind
        THEN IF element.start
               THEN [m |-> r.m, depth |-> depth + 1, res |-> Some(element), panic |-> ""]
             ELSE IF depth - 1 = 0
               THEN [m |-> r.m, depth |-> 0, res |-> None, panic |-> ""]
             ELSE [m |-> r.m, depth |-> depth - 1, res |-> Some(element), panic |-> ""]
        ELSE [m |-> r.m, depth |-> depth, res |-> Some(element), panic |-> ""]

\* Mutant of QueueContentIterator::next: the tag's kind is not compared, start
\* and end tags of every kind are counted.
IterNextAnyKind(m, self, kind, depth) ==
  IF depth = 0 THEN [m |-> m, depth |-> 0, res |-> None, panic |-> ""]
  ELSE
    LET r == ExpandInterned(Pop(m, self), self) IN
    IF r.panic # "" THEN [m |-> r.m, depth |-> depth, res |-> None, panic |-> r.panic]
    ELSE IF r.res = None
      THEN [m |-> r.m, depth |-> depth, res |-> None, panic |-> "Missing end signal."]
    ELSE
      LET element == r.res[1] IN
      IF element.type = "Tag"
        THEN IF element.start
               THEN [m |-> r.m, depth |-> depth + 1, res |-> Some(element), panic |-> ""]
             ELSE IF depth - 1 = 0
               THEN [m |-> r.m, depth |-> 0, res |-> None, panic |-> ""]
             ELSE [m |-> r.m, depth |-> depth - 1, res |-> Some(element), panic |-> ""]
        ELSE [m |-> r.m, depth |-> depth, res |-> Some(element), panic |-> ""]

\* Mutant of QueueContentIterator::next: without the `if self.depth == 0`
\* guard, an iterator that has ended pops again.
IterNextNoDepthGuard(m, self, kind, depth) ==
  LET r == ExpandInterned(Pop(m, self), self) IN
  IF r.panic # "" THEN [m |-> r.m, depth |-> depth, res |-> None, panic |-> r.panic]
  ELSE IF r.res = None
    THEN [m |-> r.m, depth |-> depth, res |-> None, panic |-> "Missing end signal."]
  ELSE
    LET element == r.res[1] IN
    IF element.type = "Tag" /\ element.kind = kind
      THEN IF element.start
             THEN [m |-> r.m, depth |-> depth + 1, res |-> Some(element), panic |-> ""]
           ELSE IF depth - 1 = 0
             THEN [m |-> r.m, depth |-> 0, res |-> None, panic |-> ""]
           ELSE [m |-> r.m, depth |-> depth - 1, res |-> Some(element), panic |-> ""]
      ELSE [m |-> r.m, depth |-> depth, res |-> Some(element), panic |-> ""]

\* Mutant of QueueContentIterator::next: an exhausted queue ends the iteration
\* with a failure value that names the kind, returned to the caller.
IterNextReturnsFailure(m, self, kind, depth) ==
  IF depth = 0 THEN [m |-> m, depth |-> 0, res |-> None, panic |-> ""]
  ELSE
    LET r == ExpandInterned(Pop(m, self), self) IN
    IF r.panic # "" THEN [m |-> r.m, depth |-> depth, res |-> None, panic |-> r.panic]
    ELSE IF r.res = None
      THEN [m |-> r.m, depth |-> 0,
            res |-> Some([type |-> "Failure", error |-> "missing_end_signal", kind |-> kind]),
            panic |-> ""]
    ELSE
      LET element == r.res[1] IN
      IF element.type = "Tag" /\ element.kind = kind
        THEN IF element.start
               THEN [m |-> r.m, depth |-> depth + 1, res |-> Some(element), panic |-> ""]
             ELSE IF depth - 1 = 0
               THEN [m |-> r.m, depth |-> 0, res |-> None, panic |-> ""]
             ELSE [m |-> r.m, depth |-> depth - 1, res |-> Some(element), panic |-> ""]
        ELSE [m |-> r.m, depth |-> depth, res |-> Some(element), panic |-> ""]

\* QueueContentIterator::next: [m, depth, res, panic]
IterNext(m, self, kind, depth) ==
  IF depth = 0 THEN [m |-> m, depth |-> 0, res |-> None, panic |-> ""]
  ELSE
    LET r == ExpandInterned(Pop(m, self), self) IN
    IF r.panic # "" THEN [m |-> r.m, depth |-> depth, res |-> None, panic |-> r.panic]
    ELSE IF r.res = None
      THEN [m |-> r.m, depth |-> depth, res |-> None, panic |-> "Missing end signal."]
    ELSE
      LET element == r.res[1] IN
      IF element.type = "Tag" /\ element.kind = kind
        THEN IF element.start
               THEN [m |-> r.m, depth |-> depth + 1, res |-> Some(element), panic |-> ""]
             ELSE IF depth - 1 = 0
               THEN [m |-> r.m, depth |-> 0, res |-> None, panic |-> ""]
             ELSE [m |-> r.m, depth |-> depth - 1, res |-> Some(element), panic |-> ""]
        ELSE [m |-> r.m, depth |-> depth, res |-> Some(element), panic |-> ""]

\* `for _ in iter {}`: next is called until it returns None
RECURSIVE DrainIter(_, _, _, _)
DrainIter(m, self, kind, depth) ==
  LET n == IterNext(m, self, kind, depth) IN
  IF n.panic # "" THEN Panic(n.m, n.panic)
  ELSE IF n.res = None THEN Ret(n.m, None)
  ELSE DrainIter(n.m, self, kind, n.depth)

\* Mutant of Queue::skip_content: the iteration stops after its first element.
SkipContentOneStep(m, self, kind) ==
  LET n == IterNext(m, self, kind, IterNew(kind).depth) IN
  IF n.panic # "" THEN Panic(n.m, n.panic) ELSE Ret(n.m, None)

SkipContent(m, self, kind) == DrainIter(m, self, kind, IterNew(kind).depth)

(***************************************************************************)
(* The state: the print queue, the fits queue borrowing it (if any), the   *)
(* content iterator borrowing one of them (if any).  History variables:    *)
(* `last` records the last call (pre: the memory before it, depth: the     *)
(* iterator's depth before it), `snapshot` the print queue when the fits   *)
(* queue was built, `shadow` an independent PrintQueue that receives the   *)
(* same calls as the fits queue.                                           *)
(***************************************************************************)
VARIABLES print, fits, iter, last, snapshot, shadow, pushes

\* State of the other specifications of this module (further below): the
\* print loop, the pair of documents of the interning check, the feeding of
\* a fits-end predicate.  They are idle in Spec.
VARIABLES printer, twin, pred

vars == <<print, fits, iter, last, snapshot, shadow, pushes, printer, twin, pred>>

IdlePrinter == [pc |-> "idle", doc |-> <<>>, out |-> <<>>]
IdleTwin == [pc |-> "idle"]
IdlePred == [pc |-> "idle"]
others == <<printer, twin, pred>>

Mem == [print |-> print, fits |-> fits]
ShadowMem == [print |-> shadow, fits |-> NoFits]

NoIter == [live |-> FALSE, kind |-> "", depth |-> 0, sdepth |-> 0, yielded |-> <<>>,
           origin |-> [print |-> PrintQueueNew(<<>>), fits |-> NoFits]]

\* The queue the caller can reach: a live FitsQueue borrows the PrintQueue.
Target == IF fits.live THEN "fits" ELSE "print"

Call(op, arg, kind, r, sr) ==
  [op |-> op, self |-> Target, arg |-> arg, kind |-> kind,
   res |-> r.res, panic |-> r.panic, sres |-> sr.res, spanic |-> sr.panic,
   pre |-> Mem, depth |-> iter.depth]

NoCall ==
  [op |-> "new", self |-> "print", arg |-> <<>>, kind |-> "",
   res |-> None, panic |-> "", sres |-> None, spanic |-> "",
   pre |-> [print |-> PrintQueueNew(<<>>), fits |-> NoFits], depth |-> 0]

Init ==
  /\ \E root \in SlicesUpTo(MaxLen) : print = PrintQueueNew(root)
  /\ fits = NoFits
  /\ iter = NoIter
  /\ shadow = print
  /\ snapshot = print
  /\ pushes = 0
  /\ last = NoCall
  /\ printer = IdlePrinter
  /\ twin = IdleTwin
  /\ pred = IdlePred

\* No call follows a panic; a live iterator borrows the queue mutably.
CanCall == last.panic = "" /\ ~iter.live

Apply(op, arg, kind, r, sr) ==
  /\ print' = r.m.print
  /\ fits' = r.m.fits
  /\ shadow' = sr.m.print
  /\ last' = Call(op, arg, kind, r, sr)
  /\ snapshot' = IF fits.live THEN snapshot ELSE r.m.print
  /\ UNCHANGED <<iter, others>>

DoPop ==
  /\ CanCall
  /\ Apply("pop", <<>>, "", Pop(Mem, Target), Pop(ShadowMem, "print"))
  /\ UNCHANGED pushes

DoTopWithInterned ==
  /\ CanCall
  /\ Apply("top_with_interned", <<>>, "",
           TopWithInterned(Mem, Target), TopWithInterned(ShadowMem, "print"))
  /\ UNCHANGED pushes

DoTop ==
  /\ CanCall
  /\ Apply("top", <<>>, "", Top(Mem, Target), Top(ShadowMem, "print"))
  /\ UNCHANGED pushes

DoPush ==
  /\ CanCall
  /\ pushes < MaxPush
  /\ \E element \in Elements :
       Apply("push", <<element>>, "",
             Push(Mem, Target, element), Push(ShadowMem, "print", element))
  /\ pushes' = pushes + 1

DoExtendBack ==
  /\ CanCall
  /\ pushes < MaxPush
  /\ \E id \in InternedIds :
       Apply("extend_back", Pool[id], "",
             ExtendBack(Mem, Target, Pool[id]), ExtendBack(ShadowMem, "print", Pool[id]))
  /\ pushes' = pushes + 1

DoPopSlice ==
  /\ CanCall
  /\ Apply("pop_slice", <<>>, "", PopSlice(Mem, Target), PopSlice(ShadowMem, "print"))
  /\ UNCHANGED pushes

DoSkipContent ==
  /\ CanCall
  /\ \E kind \in TagKinds :
       Apply("skip_content", <<>>, kind,
             SkipContent(Mem, Target, kind), SkipContent(ShadowMem, "print", kind))
  /\ UNCHANGED pushes

DoIterContent ==
  /\ CanCall
  /\ \E kind \in TagKinds :
       /\ iter' = [live |-> TRUE, kind |-> kind, depth |-> IterNew(kind).depth,
                   sdepth |-> IterNew(kind).depth, yielded |-> <<>>, origin |-> Mem]
       /\ last' = Call("iter_content", <<>>, kind, Ret(Mem, None), Ret(ShadowMem, None))
  /\ UNCHANGED <<print, fits, shadow, snapshot, pushes, others>>

DoIterNext ==
  /\ last.panic = ""
  /\ iter.live
  /\ LET n == IterNext(Mem, Target, iter.kind, iter.depth)
         sn == IterNext(ShadowMem, "print", iter.kind, iter.sdepth)
     IN
       /\ print' = n.m.print
       /\ fits' = n.m.fits
       /\ shadow' = sn.m.print
       /\ iter' = [iter EXCEPT !.depth = n.depth, !.sdepth = sn.depth,
                               !.yielded = iter.yielded \o n.res]
       /\ last' = Call("next", <<>>, iter.kind, n, sn)
       /\ snapshot' = IF fits.live THEN snapshot ELSE n.m.print
  /\ UNCHANGED <<pushes, others>>

DoIterDrop ==
  /\ last.panic = ""
  /\ iter.live
  /\ iter' = NoIter
  /\ last' = Call("iter_drop", <<>>, iter.kind, Ret(Mem, None), Ret(ShadowMem, None))
  /\ UNCHANGED <<print, fits, shadow, snapshot, pushes, others>>

DoFitsNew ==
  /\ CanCall
  /\ ~fits.live
  /\ fits' = FitsQueueNew(print, <<>>)
  /\ snapshot' = print
  /\ shadow' = print
  /\ last' = [Call("fits_new", <<>>, "", Ret(Mem, None), Ret(ShadowMem, None))
                EXCEPT !.self = "fits"]
  /\ UNCHANGED <<print, iter, pushes, others>>

DoFitsFinish ==
  /\ CanCall
  /\ fits.live
  /\ fits' = NoFits
  /\ shadow' = print
  /\ last' = Call("finish", <<>>, "", Ret(Mem, Some(FitsFinish(fits))),
                  Ret(ShadowMem, Some(FitsFinish(fits))))
  /\ UNCHANGED <<print, iter, snapshot, pushes, others>>

Next ==
  \/ DoPop
  \/ DoTopWithInterned
  \/ DoTop
  \/ DoPush
  \/ DoExtendBack
  \/ DoPopSlice
  \/ DoSkipContent
  \/ DoIterContent
  \/ DoIterNext
  \/ DoIterDrop
  \/ DoFitsNew
  \/ DoFitsFinish

Spec == Init /\ [][Next]_vars

(***************************************************************************)
(* Observations used to state the properties.                              *)
(***************************************************************************)
\* The pop sequence of a queue: the elements pop returns until it returns None.
RECURSIVE PopAll(_, _)
PopAll(m, self) ==
  LET r == Pop(m, self) IN
  IF r.panic # "" \/ r.res = None THEN <<>>
  ELSE <<r.res[1]>> \o PopAll(r.m, self)

PrintOnly(pq) == [print |-> pq, fits |-> NoFits]

\* A plain-list reading of "the content up to the matching end tag": walk the
\* list R with interned references inlined where they stand, counting start and
\* end tags of `kind` from `depth`; `between` is what precedes the end tag that
\* brings the depth to zero, `rest` what follows it.
RECURSIVE Matched(_, _, _, _)
Matched(R, kind, depth, between) ==
  IF R = <<>> THEN [found |-> FALSE, between |-> between, rest |-> <<>>]
  ELSE
    LET e == Head(R) IN
    IF e.type = "Interned" THEN Matched(Pool[e.id] \o Tail(R), kind, depth, between)
    ELSE IF e.type = "Tag" /\ e.kind = kind /\ ~e.start /\ depth = 1
      THEN [found |-> TRUE, between |-> between, rest |-> Tail(R)]
    ELSE IF e.type = "Tag" /\ e.kind = kind
      THEN Matched(Tail(R), kind, IF e.start THEN depth + 1 ELSE depth - 1,
                   Append(between, e))
    ELSE Matched(Tail(R), kind, depth, Append(between, e))

IsPrefix(s, t) == Len(s) <= Len(t) /\ s = SubSeq(t, 1, Len(s))

\* Number of start tags minus number of end tags of `kind` in s.
RECURSIVE Balance(_, _)
Balance(s, kind) ==
  IF s = <<>> THEN 0
  ELSE Balance(Tail(s), kind)
       + (IF Head(s).type = "Tag" /\ Head(s).kind = kind
            THEN (IF Head(s).start THEN 1 ELSE -1)
            ELSE 0)

\* The queue the last call was made on, and its next index before the call.
Callee == last.self
PreIndex == NextIndex(last.pre, Callee)

(***************************************************************************)
(* C1. Non-destructive measurement: while a FitsQueue built at print queue *)
(* state S is alive, and after it is finished, the PrintQueue's frames and *)
(* next index are those of S, so its pop sequence is the one from S.       *)
(***************************************************************************)
NonDestructiveMeasurement ==
  (fits.live \/ last.op = "finish") =>
    /\ print.slices = snapshot.slices
    /\ print.next_index = snapshot.next_index
    /\ PopAll(PrintOnly(print), "print") = PopAll(PrintOnly(snapshot), "print")

\* A finished FitsQueue that had consumed elements and left private frames.
NonDestructiveWitness ==
  /\ last.op = "finish"
  /\ last.res # Some(<<>>)
  /\ print.slices # <<>>
  /\ print.next_index > 0

(***************************************************************************)
(* C2. A FitsQueue built with an empty overlay returns, call by call, what *)
(* an independent copy of the PrintQueue returns for the same calls.       *)
(***************************************************************************)
FitsRefinesPrint ==
  last.self = "fits" =>
    /\ last.res = last.sres
    /\ last.panic = last.spanic
    /\ iter.depth = iter.sdepth

\* A pop on the FitsQueue that read a frame borrowed from the PrintQueue at a
\* non-zero index.
FitsRefinesWitness ==
  /\ last.self = "fits"
  /\ last.op = "pop"
  /\ last.res # None
  /\ PreIndex > 0
  /\ fits.stack.stack = <<>>
  /\ fits.stack.original < Len(print.slices)

(***************************************************************************)
(* C3. push / extend_back with a non-empty slice s: the pop sequence after *)
(* the call is s followed by the pop sequence before the call.             *)
(***************************************************************************)
ExtendBackPrepends ==
  (last.op \in {"push", "extend_back"} /\ last.arg # <<>>) =>
    /\ last.panic = ""
    /\ PopAll(Mem, Callee) = last.arg \o PopAll(last.pre, Callee)

\* extend_back of a two-element slice in the middle of the top frame
ExtendBackWitness ==
  /\ last.op = "extend_back"
  /\ Len(last.arg) = 2
  /\ PreIndex > 0
  /\ Len(Frames(Mem, Callee)) >= 2

(***************************************************************************)
(* C4. pop returns the element at the next index of the top frame; if that *)
(* was the frame's last element the frame is removed and the index is 0,   *)
(* otherwise the index advances by one; it returns None exactly when there *)
(* is no frame, and then changes nothing.                                  *)
(***************************************************************************)
PopContract ==
  last.op = "pop" =>
    LET f == Frames(last.pre, Callee)
        i == PreIndex
    IN
      /\ last.panic = ""
      /\ (last.res = None) <=> (f = <<>>)
      /\ f = <<>> => Mem = last.pre
      /\ f # <<>> =>
           /\ i < Len(f[Len(f)])
           /\ last.res = Some(f[Len(f)][i + 1])
           /\ IF i + 1 = Len(f[Len(f)])
                THEN /\ Frames(Mem, Callee) = SubSeq(f, 1, Len(f) - 1)
                     /\ NextIndex(Mem, Callee) = 0
                ELSE /\ Frames(Mem, Callee) = f
                     /\ NextIndex(Mem, Callee) = i + 1

\* a pop that took the last element of a frame entered in its middle
PopWitness ==
  /\ last.op = "pop"
  /\ last.res # None
  /\ PreIndex > 0
  /\ NextIndex(Mem, Callee) = 0
  /\ Frames(Mem, Callee) # <<>>

(***************************************************************************)
(* C7. iter_content(kind) starts at depth 1; a start tag of the kind is    *)
(* yielded and increases the depth, an end tag of the kind decreases it    *)
(* and is yielded unless the depth reaches zero, which ends the iteration. *)
(* So the depth is 1 plus the balance of the yielded tags of the kind, and *)
(* when a matching end tag exists the yielded sequence is exactly what     *)
(* stands before it (interned references inlined), the queue being left    *)
(* with exactly what follows it.                                           *)
(***************************************************************************)
IterContentYields ==
  (iter.live /\ last.panic = "") =>
    LET ref == Matched(PopAll(iter.origin, Target), iter.kind, 1, <<>>)
        bal == Balance(iter.yielded, iter.kind)
    IN
      /\ \A k \in 1..Len(iter.yielded) : iter.yielded[k].type # "Interned"
      /\ iter.depth > 0 =>
           /\ iter.depth = 1 + bal
           /\ Matched(PopAll(Mem, Target), iter.kind, iter.depth, iter.yielded) = ref
      /\ iter.depth = 0 =>
           /\ bal = 0
           /\ ref.found
           /\ iter.yielded = ref.between
           /\ PopAll(Mem, Target) = ref.rest
      /\ ref.found => IsPrefix(iter.yielded, ref.between)

\* an iteration that ended at the matching end tag after yielding a nested
\* start/end pair of the kind, with elements left in the queue
IterContentWitness ==
  /\ iter.live
  /\ last.op = "next"
  /\ last.panic = ""
  /\ iter.depth = 0
  /\ \E j, k \in 1..Len(iter.yielded) :
       /\ j < k
       /\ iter.yielded[j] = Tag(iter.kind, TRUE)
       /\ iter.yielded[k] = Tag(iter.kind, FALSE)

(***************************************************************************)
(* C8. skip_content(kind) on a queue that holds the matching end tag       *)
(* consumes everything up to and including that tag and nothing after it:  *)
(* the pop sequence left is exactly what follows the tag, so the next pop  *)
(* returns the element right after it (None if there is none).             *)
(***************************************************************************)
SkipContentStopsAfterEnd ==
  last.op = "skip_content" =>
    LET ref == Matched(PopAll(last.pre, Callee), last.kind, 1, <<>>) IN
    ref.found =>
      /\ last.panic = ""
      /\ PopAll(Mem, Callee) = ref.rest
      /\ Pop(Mem, Callee).res = First(ref.rest)

\* a skip over at least two elements that leaves elements in the queue
SkipContentWitness ==
  /\ last.op = "skip_content"
  /\ last.panic = ""
  /\ PopAll(Mem, Callee) # <<>>
  /\ Len(Matched(PopAll(last.pre, Callee), last.kind, 1, <<>>).between) >= 2

(***************************************************************************)
(* C9. Missing end signal: a content iterator whose depth is above zero    *)
(* and whose queue is exhausted (nothing left once interned references are *)
(* inlined) fails with "Missing end signal."; next never returns a normal  *)
(* end of sequence while the depth is above zero, and skip_content fails   *)
(* the same way when the queue holds no matching end tag.                  *)
(***************************************************************************)
RECURSIVE Flatten(_)
Flatten(R) ==
  IF R = <<>> THEN <<>>
  ELSE IF Head(R).type = "Interned" THEN Flatten(Pool[Head(R).id] \o Tail(R))
  ELSE <<Head(R)>> \o Flatten(Tail(R))

MissingEndSignal ==
  /\ (last.op = "next" /\ last.depth > 0 /\ Flatten(PopAll(last.pre, Callee)) = <<>>) =>
       /\ last.panic = "Missing end signal."
       /\ last.res = None
  /\ (last.op = "next" /\ last.depth > 0 /\ last.panic = "" /\ last.res = None) =>
       /\ iter.depth = 0
       /\ Matched(PopAll(last.pre, Callee), last.kind, last.depth, <<>>).found
  /\ (last.op = "skip_content"
        /\ ~Matched(PopAll(last.pre, Callee), last.kind, 1, <<>>).found) =>
       last.panic = "Missing end signal."

\* the queue [StartEntry] iterated for Entry: the start tag is yielded, the
\* next call fails
MissingEndWitness ==
  /\ last.op = "next"
  /\ last.kind = "Entry"
  /\ last.panic = "Missing end signal."
  /\ iter.yielded = <<StartEntry>>
  /\ iter.origin.print = PrintQueueNew(<<StartEntry>>)

(***************************************************************************)
(* C16. Empty slices are dropped: extend_back with an empty slice changes  *)
(* neither the frames, nor is_empty(), nor the next index, nor the pop     *)
(* sequence; a PrintQueue built from an empty root slice has no frame and  *)
(* reports empty.                                                          *)
(***************************************************************************)
EmptySliceIsDropped ==
  /\ (last.op = "extend_back" /\ last.arg = <<>>) =>
       /\ last.panic = ""
       /\ Len(Frames(Mem, Callee)) = Len(Frames(last.pre, Callee))
       /\ Frames(Mem, Callee) = Frames(last.pre, Callee)
       /\ PrintIsEmpty(print) = PrintIsEmpty(last.pre.print)
       /\ NextIndex(Mem, Callee) = PreIndex
       /\ PopAll(Mem, Callee) = PopAll(last.pre, Callee)
  /\ (last.op = "new" /\ PopAll(Mem, "print") = <<>>) =>
       /\ print.slices = <<>>
       /\ PrintIsEmpty(print)
       /\ print.next_index = 0
  /\ PrintIsEmpty(PrintQueueNew(<<>>))

\* extend_back of an empty slice in the middle of a frame of a queue that
\* has two frames
EmptySliceWitness ==
  /\ last.op = "extend_back"
  /\ last.arg = <<>>
  /\ PreIndex > 0
  /\ Len(Frames(Mem, Callee)) = 2
  /\ ~PrintIsEmpty(print)

(***************************************************************************)
(* C17. No empty frame: in every reachable state, every frame of the print *)
(* queue, and of a fits queue built on it with no saved frame, is          *)
(* non-empty, and the next index lies inside the top frame, so that the    *)
(* part of the top frame that remains is non-empty as well.                *)
(***************************************************************************)
FramesNonEmpty(m, self) ==
  LET f == Frames(m, self) IN
    /\ \A k \in 1..Len(f) : Len(f[k]) > 0
    /\ f # <<>> => NextIndex(m, self) < Len(f[Len(f)])

NoEmptyFrame ==
  /\ FramesNonEmpty(Mem, "print")
  /\ fits.live => FramesNonEmpty(Mem, "fits")

\* a push on the fits queue that split the top frame before its last element
NoEmptyFrameWitness ==
  /\ last.op = "push"
  /\ Callee = "fits"
  /\ fits.live
  /\ LET f == Frames(last.pre, "fits") IN
       /\ f # <<>>
       /\ PreIndex > 0
       /\ PreIndex + 1 = Len(f[Len(f)])
       /\ Len(Frames(Mem, "fits")) = Len(f) + 1

(***************************************************************************)
(* C18. top_with_interned returns the element the next pop would return,   *)
(* an interned reference as such, None exactly when the queue is           *)
(* exhausted, and changes neither the frames nor the next index.           *)
(***************************************************************************)
TopWithInternedAgreesWithPop ==
  last.op = "top_with_interned" =>
    /\ last.panic = ""
    /\ last.res = Pop(last.pre, Callee).res
    /\ (last.res = None) <=> (Frames(last.pre, Callee) = <<>>)
    /\ Mem = last.pre

\* an interned reference seen in the middle of a frame
TopWithInternedWitness ==
  /\ last.op = "top_with_interned"
  /\ last.res # None
  /\ last.res[1].type = "Interned"
  /\ PreIndex > 0

(***************************************************************************)
(* C19. top returns the next element with interned references resolved:    *)
(* as long as it is an interned reference it is replaced by the first      *)
(* element of the referenced sequence, None if that sequence is empty; the *)
(* result is never an interned reference and the queue is not changed.     *)
(***************************************************************************)
\* one replacement
FirstOfInterned(top) ==
  IF top = None THEN None
  ELSE IF top[1].type # "Interned" THEN top
  ELSE IF Pool[top[1].id] = <<>> THEN None
  ELSE Some(Pool[top[1].id][1])

\* n replacements
RECURSIVE FirstOfInternedTimes(_, _)
FirstOfInternedTimes(top, n) ==
  IF n = 0 THEN top ELSE FirstOfInternedTimes(FirstOfInterned(top), n - 1)

TopResolvesInterned ==
  last.op = "top" =>
    /\ last.panic = ""
    /\ \E n \in 0..Len(Pool) :
         /\ last.res = FirstOfInternedTimes(Pop(last.pre, Callee).res, n)
         /\ \A k \in 0..(n - 1) :
              LET e == FirstOfInternedTimes(Pop(last.pre, Callee).res, k)
              IN e # None /\ e[1].type = "Interned"
    /\ last.res # None => last.res[1].type # "Interned"
    /\ Mem = last.pre

\* Interned(3), whose first element is itself interned, resolved to a token
TopResolvesWitness ==
  /\ last.op = "top"
  /\ Pop(last.pre, Callee).res = Some(Interned(3))
  /\ last.res = Some(Token("b"))

(***************************************************************************)
(* C20. pop_slice sets the next index to zero, removes the top frame and   *)
(* returns it (None on an empty queue): what remained of that frame is     *)
(* skipped, the frames beneath are unchanged, and the next pop returns the *)
(* first element of the frame beneath.                                     *)
(***************************************************************************)
PopSliceRemovesTopFrame ==
  last.op = "pop_slice" =>
    LET f == Frames(last.pre, Callee)
        before == PopAll(last.pre, Callee)
    IN
      /\ last.panic = ""
      /\ NextIndex(Mem, Callee) = 0
      /\ (last.res = None) <=> (f = <<>>)
      /\ f = <<>> => Frames(Mem, Callee) = <<>>
      /\ f # <<>> =>
           /\ last.res = Some(f[Len(f)])
           /\ Frames(Mem, Callee) = SubSeq(f, 1, Len(f) - 1)
           /\ PopAll(Mem, Callee) =
                SubSeq(before, Len(f[Len(f)]) - PreIndex + 1, Len(before))
           /\ Len(f) > 1 => Pop(Mem, Callee).res = Some(f[Len(f) - 1][1])

\* pop_slice in the middle of the top frame, with a frame beneath
PopSliceWitness ==
  /\ last.op = "pop_slice"
  /\ PreIndex > 0
  /\ Len(Frames(last.pre, Callee)) = 2
  /\ Pop(Mem, Callee).res # None

(***************************************************************************)
(* C21. The queue operations are total on an exhausted queue: pop,         *)
(* top_with_interned, top and pop_slice return None without failing and    *)
(* leave the queue without frame and at index zero; push and extend_back   *)
(* succeed and make the pushed slice the whole pop sequence.               *)
(***************************************************************************)
TotalOnEmptyQueue ==
  (last.op \in {"pop", "top_with_interned", "top", "pop_slice", "push", "extend_back"}
     /\ Frames(last.pre, Callee) = <<>>) =>
    /\ last.panic = ""
    /\ last.res = None
    /\ PopAll(Mem, Callee) = last.arg
    /\ last.arg = <<>> =>
         /\ Frames(Mem, Callee) = <<>>
         /\ NextIndex(Mem, Callee) = 0
    /\ last.arg # <<>> =>
         /\ Frames(Mem, Callee) = <<last.arg>>
         /\ NextIndex(Mem, Callee) = 0

\* top on a fits queue that is exhausted while the print queue is not
TotalOnEmptyWitness ==
  /\ last.op = "top"
  /\ Callee = "fits"
  /\ Frames(last.pre, "fits") = <<>>
  /\ ~PrintIsEmpty(print)
  /\ last.res = None

(***************************************************************************)
(* C25. Index validity: in every reachable state of the print queue, and   *)
(* of a fits queue built on it with no saved frame, the next index is      *)
(* below the length of the top frame if there is a frame and zero if there *)
(* is none; no call fails on an index out of bounds.                       *)
(***************************************************************************)
IndexValid(m, self) ==
  LET f == Frames(m, self) IN
    IF f = <<>> THEN NextIndex(m, self) = 0
    ELSE NextIndex(m, self) < Len(f[Len(f)])

IndexAlwaysValid ==
  /\ IndexValid(Mem, "print")
  /\ fits.live => IndexValid(Mem, "fits")
  /\ last.panic \notin {"index out of bounds", "slice index out of range"}

\* a fits queue built in the middle of the print queue's top frame, at the
\* last element of that frame, which top_with_interned then reads
IndexValidWitness ==
  /\ fits.live
  /\ last.op = "top_with_interned"
  /\ last.res # None
  /\ print.next_index > 0
  /\ NextIndex(Mem, "fits") = print.next_index
  /\ NextIndex(Mem, "fits") + 1 = Len(Frames(Mem, "fits")[Len(Frames(Mem, "fits"))])

(***************************************************************************)
(* C27. In a content iterator, an element that is no tag of the iterator's *)
(* kind (a token, a start or end tag of another kind) is yielded as it is  *)
(* and leaves the depth as it was; an end tag of the kind met at depth 1   *)
(* ends the iteration, whatever tags of other kinds have been yielded.     *)
(***************************************************************************)
IsTagOfKind(element, kind) == element.type = "Tag" /\ element.kind = kind

OtherElementsYielded ==
  (last.op = "next" /\ last.depth > 0 /\ last.panic = "") =>
    LET R == Flatten(PopAll(last.pre, Callee))
    IN
      /\ R # <<>>
      /\ Flatten(PopAll(Mem, Callee)) = Tail(R)
      /\ ~IsTagOfKind(R[1], last.kind) =>
           /\ last.res = Some(R[1])
           /\ iter.depth = last.depth
      /\ (R[1] = Tag(last.kind, FALSE) /\ last.depth = 1) =>
           /\ last.res = None
           /\ iter.depth = 0

\* [StartGroup, EndEntry] iterated for Entry: the group start tag is yielded,
\* the entry end tag ends the iteration with the group still open
OtherElementsWitness ==
  /\ last.op = "next"
  /\ last.kind = "Entry"
  /\ last.depth = 1
  /\ iter.depth = 0
  /\ iter.yielded = <<StartGroup>>
  /\ last.res = None
  /\ last.panic = ""

(***************************************************************************)
(* C30. The content iterator is lazy and fused: iter_content pops nothing, *)
(* and once the iterator has ended (its depth is zero) next returns None   *)
(* and leaves frames and next index of the queue as they are.              *)
(***************************************************************************)
IterLazyAndFused ==
  /\ last.op = "iter_content" =>
       /\ Mem = last.pre
       /\ iter.live
       /\ iter.depth = 1
       /\ iter.yielded = <<>>
  /\ (last.op = "next" /\ last.depth = 0) =>
       /\ last.res = None
       /\ last.panic = ""
       /\ Mem = last.pre
       /\ iter.depth = 0

\* next called on an iterator that has ended, with elements left in the queue
IterFusedWitness ==
  /\ last.op = "next"
  /\ last.depth = 0
  /\ iter.yielded # <<>>
  /\ PopAll(Mem, Callee) # <<>>

(***************************************************************************)
(* C31. top agrees with consumption through interned references: it        *)
(* returns what pop followed by the interned loop of the content iterator  *)
(* (extend_back of the content, pop again) returns from the same state,    *)
(* and None only when that finds the queue exhausted.                      *)
(***************************************************************************)
TopAgreesWithExpandingPop ==
  last.op = "top" =>
    /\ last.panic = ""
    /\ last.res = ExpandInterned(Pop(last.pre, Callee), Callee).res

(***************************************************************************)
(* C32. is_empty() of the print queue is true exactly when pop would       *)
(* return None, that is when nothing is left to pop.                       *)
(***************************************************************************)
IsEmptyIffPopNone ==
  LET r == Pop(Mem, "print") IN
    /\ r.panic = ""
    /\ PrintIsEmpty(print) <=> (r.res = None)
    /\ PrintIsEmpty(print) <=> (PopAll(Mem, "print") = <<>>)
    /\ (last.op = "pop" /\ Callee = "print") =>
         (PrintIsEmpty(last.pre.print) <=> (last.res = None))

\* the pop that takes the last element of the print queue, out of the middle
\* of its last frame
IsEmptyWitness ==
  /\ last.op = "pop"
  /\ Callee = "print"
  /\ ~PrintIsEmpty(last.pre.print)
  /\ PreIndex > 0
  /\ last.res # None
  /\ PrintIsEmpty(print)

(***************************************************************************)
(* Printing: the print loop pops the PrintQueue built from the root slice  *)
(* until it is exhausted; an interned reference it pops is queued in front *)
(* of the rest (extend_back), so that its content is printed in place.     *)
(***************************************************************************)
QueueIdle ==
  /\ fits = NoFits
  /\ iter = NoIter
  /\ last = NoCall
  /\ shadow = PrintQueueNew(<<>>)
  /\ snapshot = PrintQueueNew(<<>>)
  /\ pushes = 0

InitPrint ==
  /\ \E doc \in SlicesUpTo(MaxDoc) :
       /\ print = PrintQueueNew(doc)
       /\ printer = [pc |-> "print", doc |-> doc, out |-> <<>>]
  /\ QueueIdle
  /\ twin = IdleTwin
  /\ pred = IdlePred

PrintStep ==
  /\ printer.pc = "print"
  /\ LET r == Pop(PrintOnly(print), "print") IN
       IF r.panic # ""
         THEN /\ printer' = [printer EXCEPT !.pc = "panic"]
              /\ print' = r.m.print
       ELSE IF r.res = None
         THEN /\ printer' = [printer EXCEPT !.pc = "done"]
              /\ print' = r.m.print
       ELSE
         LET element == r.res[1]
             e == IF element.type = "Interned"
                    THEN ExtendBack(r.m, "print", Pool[element.id])
                    ELSE Ret(r.m, None)
         IN
           /\ printer' = [printer EXCEPT !.out = Append(@, element),
                                         !.pc = IF e.panic # "" THEN "panic" ELSE @]
           /\ print' = e.m.print
  /\ UNCHANGED <<fits, iter, last, snapshot, shadow, pushes, twin, pred>>

NextPrint == PrintStep

SpecPrint == InitPrint /\ [][NextPrint]_vars

\* The loop runs until pop returns None: a sequential program takes its next step.
FairSpecPrint == SpecPrint /\ WF_vars(NextPrint)

\* A plain-list reading of printing: the elements of R in order, the content
\* of an interned reference following the reference.
RECURSIVE Inlined(_)
Inlined(R) ==
  IF R = <<>> THEN <<>>
  ELSE IF Head(R).type = "Interned"
    THEN <<Head(R)>> \o Inlined(Pool[Head(R).id] \o Tail(R))
  ELSE <<Head(R)>> \o Inlined(Tail(R))

\* The tags of s are well nested: every end tag closes the innermost open
\* start tag (`open`: the kinds of the open tags, innermost last).
RECURSIVE WellNestedFrom(_, _)
WellNestedFrom(s, open) ==
  IF s = <<>> THEN open = <<>>
  ELSE IF Head(s).type # "Tag" THEN WellNestedFrom(Tail(s), open)
  ELSE IF Head(s).start THEN WellNestedFrom(Tail(s), Append(open, Head(s).kind))
  ELSE /\ open # <<>>
       /\ open[Len(open)] = Head(s).kind
       /\ WellNestedFrom(Tail(s), SubSeq(open, 1, Len(open) - 1))

WellNested(doc) == WellNestedFrom(Flatten(doc), <<>>)

(***************************************************************************)
(* C5. Balanced-document round trip: printing a document pops every        *)
(* element exactly once, in document order with interned content in place, *)
(* and ends with the PrintQueue empty.                                     *)
(***************************************************************************)
PrintRoundTrip ==
  <>[](/\ printer.pc = "done"
       /\ printer.out = Inlined(printer.doc)
       /\ PrintIsEmpty(print)
       /\ print.next_index = 0)

\* a well-nested document with tags and an interned reference, printed
PrintRoundTripWitness ==
  /\ printer.pc = "done"
  /\ WellNested(printer.doc)
  /\ printer.doc = <<StartEntry, Interned(2), Token("a")>>
  /\ Len(printer.out) = 5
  /\ PrintIsEmpty(print)

(***************************************************************************)
(* FitsEndPredicate: AllPredicate and SingleEntryPredicate.  is_end        *)
(* returns [st |-> the predicate after the call, res |-> its result]; a    *)
(* result is Ok(end) or the error built by invalid_end_tag /               *)
(* invalid_start_tag.                                                      *)
(***************************************************************************)
Ok(end) == [ok |-> TRUE, end |-> end]
InvalidEndTag(kind, start_tag) ==
  [ok |-> FALSE, error |-> "invalid_end_tag", kind |-> kind, actual |-> start_tag]
InvalidStartTag(kind, actual) ==
  [ok |-> FALSE, error |-> "invalid_start_tag", kind |-> kind, actual |-> actual]

\* `struct AllPredicate;` has no field
AllPredicate == <<>>

\* Mutant of AllPredicate::is_end: an entry end tag ends the measurement.
AllIsEndAtEntryEnd(st, element) == [st |-> st, res |-> Ok(element = EndEntry)]

\* Mutant of AllPredicate::is_end: `Ok(true)`, every element ends the
\* measurement.
AllIsEndAlwaysStops(st, element) == [st |-> st, res |-> Ok(TRUE)]

AllIsEnd(st, element) == [st |-> st, res |-> Ok(FALSE)]

\* SingleEntryPredicate::default()
SingleEntryDefault == [done |-> FALSE, depth |-> 0]
SingleEntryIsDone(st) == st.done

\* Mutant of SingleEntryPredicate::is_end: every entry end tag met inside an
\* entry ends the measurement.
SingleEntryIsEndAtAnyEnd(st, element) ==
  IF st.done THEN [st |-> st, res |-> Ok(TRUE)]
  ELSE IF element = StartEntry
    THEN [st |-> [st EXCEPT !.depth = st.depth + 1], res |-> Ok(FALSE)]
  ELSE IF element = EndEntry
    THEN IF st.depth = 0
           THEN [st |-> st, res |-> InvalidEndTag("Entry", None)]
           ELSE [st |-> [done |-> TRUE, depth |-> st.depth - 1], res |-> Ok(TRUE)]
  ELSE IF element.type = "Interned" THEN [st |-> st, res |-> Ok(FALSE)]
  ELSE IF st.depth = 0
    THEN [st |-> st, res |-> InvalidStartTag("Entry", Some(element))]
  ELSE [st |-> st, res |-> Ok(FALSE)]

\* Mutant of SingleEntryPredicate::is_end: a done predicate goes through the
\* match on the element like one at depth zero.
SingleEntryIsEndDoneReopens(st, element) ==
  IF element = StartEntry
    THEN [st |-> [done |-> FALSE, depth |-> st.depth + 1], res |-> Ok(FALSE)]
  ELSE IF element = EndEntry
    THEN IF st.depth = 0
           THEN [st |-> st, res |-> InvalidEndTag("Entry", None)]
           ELSE LET depth == st.depth - 1
                    is_end == depth = 0
                IN [st |-> IF is_end THEN [done |-> TRUE, depth |-> depth]
                                     ELSE [st EXCEPT !.depth = depth],
                    res |-> Ok(is_end)]
  ELSE IF element.type = "Interned" THEN [st |-> st, res |-> Ok(FALSE)]
  ELSE IF st.depth = 0
    THEN [st |-> st, res |-> InvalidStartTag("Entry", Some(element))]
  ELSE [st |-> st, res |-> Ok(FALSE)]

\* Mutant of SingleEntryPredicate::is_end: an entry end tag at depth zero is
\* ignored (a saturating decrement in place of the `*depth == 0` check).
SingleEntryIsEndIgnoresStrayEnd(st, element) ==
  IF st.done THEN [st |-> st, res |-> Ok(TRUE)]
  ELSE IF element = StartEntry
    THEN [st |-> [st EXCEPT !.depth = st.depth + 1], res |-> Ok(FALSE)]
  ELSE IF element = EndEntry
    THEN IF st.depth = 0
           THEN [st |-> st, res |-> Ok(FALSE)]
           ELSE LET depth == st.depth - 1
                    is_end == depth = 0
                IN [st |-> IF is_end THEN [done |-> TRUE, depth |-> depth]
                                     ELSE [st EXCEPT !.depth = depth],
                    res |-> Ok(is_end)]
  ELSE IF element.type = "Interned" THEN [st |-> st, res |-> Ok(FALSE)]
  ELSE IF st.depth = 0
    THEN [st |-> st, res |-> InvalidStartTag("Entry", Some(element))]
  ELSE [st |-> st, res |-> Ok(FALSE)]

\* Mutant of SingleEntryPredicate::is_end: without the `element if *depth == 0`
\* arm, content outside of an entry continues the measurement.
SingleEntryIsEndNoDepthZeroArm(st, element) ==
  IF st.done THEN [st |-> st, res |-> Ok(TRUE)]
  ELSE IF element = StartEntry
    THEN [st |-> [st EXCEPT !.depth = st.depth + 1], res |-> Ok(FALSE)]
  ELSE IF element = EndEntry
    THEN IF st.depth = 0
           THEN [st |-> st, res |-> InvalidEndTag("Entry", None)]
           ELSE LET depth == st.depth - 1
                    is_end == depth = 0
                IN [st |-> IF is_end THEN [done |-> TRUE, depth |-> depth]
                                     ELSE [st EXCEPT !.depth = depth],
                    res |-> Ok(is_end)]
  ELSE [st |-> st, res |-> Ok(FALSE)]

\* Mutant of SingleEntryPredicate::is_end: without the `Interned(_)` arm, an
\* interned reference is content like any other.
SingleEntryIsEndNoInternedArm(st, element) ==
  IF st.done THEN [st |-> st, res |-> Ok(TRUE)]
  ELSE IF element = StartEntry
    THEN [st |-> [st EXCEPT !.depth = st.depth + 1], res |-> Ok(FALSE)]
  ELSE IF element = EndEntry
    THEN IF st.depth = 0
           THEN [st |-> st, res |-> InvalidEndTag("Entry", None)]
           ELSE LET depth == st.depth - 1
                    is_end == depth = 0
                IN [st |-> IF is_end THEN [done |-> TRUE, depth |-> depth]
                                     ELSE [st EXCEPT !.depth = depth],
                    res |-> Ok(is_end)]
  ELSE IF st.depth = 0
    THEN [st |-> st, res |-> InvalidStartTag("Entry", Some(element))]
  ELSE [st |-> st, res |-> Ok(FALSE)]

\* Mutant of SingleEntryPredicate::is_end: a failing call leaves the predicate
\* done.
SingleEntryIsEndDoneAfterFailure(st, element) ==
  IF st.done THEN [st |-> st, res |-> Ok(TRUE)]
  ELSE IF element = StartEntry
    THEN [st |-> [st EXCEPT !.depth = st.depth + 1], res |-> Ok(FALSE)]
  ELSE IF element = EndEntry
    THEN IF st.depth = 0
           THEN [st |-> [done |-> TRUE, depth |-> 0], res |-> InvalidEndTag("Entry", None)]
           ELSE LET depth == st.depth - 1
                    is_end == depth = 0
                IN [st |-> IF is_end THEN [done |-> TRUE, depth |-> depth]
                                     ELSE [st EXCEPT !.depth = depth],
                    res |-> Ok(is_end)]
  ELSE IF element.type = "Interned" THEN [st |-> st, res |-> Ok(FALSE)]
  ELSE IF st.depth = 0
    THEN [st |-> [done |-> TRUE, depth |-> 0],
          res |-> InvalidStartTag("Entry", Some(element))]
  ELSE [st |-> st, res |-> Ok(FALSE)]

\* Mutant of SingleEntryPredicate::is_end: the depth is decremented without
\* the `*depth == 0` check.
SingleEntryIsEndUncheckedDecrement(st, element) ==
  IF st.done THEN [st |-> st, res |-> Ok(TRUE)]
  ELSE IF element = StartEntry
    THEN [st |-> [st EXCEPT !.depth = st.depth + 1], res |-> Ok(FALSE)]
  ELSE IF element = EndEntry
    THEN LET depth == st.depth - 1
             is_end == depth = 0
         IN [st |-> IF is_end THEN [done |-> TRUE, depth |-> depth]
                              ELSE [st EXCEPT !.depth = depth],
             res |-> Ok(is_end)]
  ELSE IF element.type = "Interned" THEN [st |-> st, res |-> Ok(FALSE)]
  ELSE IF st.depth = 0
    THEN [st |-> st, res |-> InvalidStartTag("Entry", Some(element))]
  ELSE [st |-> st, res |-> Ok(FALSE)]

\* Mutant of SingleEntryPredicate::is_end: the entry end tag that brings the
\* depth back to zero does not end the measurement.
SingleEntryIsEndNeverDone(st, element) ==
  IF st.done THEN [st |-> st, res |-> Ok(TRUE)]
  ELSE IF element = StartEntry
    THEN [st |-> [st EXCEPT !.depth = st.depth + 1], res |-> Ok(FALSE)]
  ELSE IF element = EndEntry
    THEN IF st.depth = 0
           THEN [st |-> st, res |-> InvalidEndTag("Entry", None)]
           ELSE [st |-> [st EXCEPT !.depth = st.depth - 1], res |-> Ok(FALSE)]
  ELSE IF element.type = "Interned" THEN [st |-> st, res |-> Ok(FALSE)]
  ELSE IF st.depth = 0
    THEN [st |-> st, res |-> InvalidStartTag("Entry", Some(element))]
  ELSE [st |-> st, res |-> Ok(FALSE)]

SingleEntryIsEnd(st, element) ==
  IF st.done THEN [st |-> st, res |-> Ok(TRUE)]
  ELSE IF element = StartEntry
    THEN [st |-> [st EXCEPT !.depth = st.depth + 1], res |-> Ok(FALSE)]
  ELSE IF element = EndEntry
    THEN IF st.depth = 0
           THEN [st |-> st, res |-> InvalidEndTag("Entry", None)]
           ELSE LET depth == st.depth - 1
                    is_end == depth = 0
                IN [st |-> IF is_end THEN [done |-> TRUE, depth |-> depth]
                                     ELSE [st EXCEPT !.depth = depth],
                    res |-> Ok(is_end)]
  ELSE IF element.type = "Interned" THEN [st |-> st, res |-> Ok(FALSE)]
  ELSE IF st.depth = 0
    THEN [st |-> st, res |-> InvalidStartTag("Entry", Some(element))]
  ELSE [st |-> st, res |-> Ok(FALSE)]

(***************************************************************************)
(* Feeding a SingleEntryPredicate: from its default state, is_end is       *)
(* called on the elements of an input sequence one after the other;        *)
(* `results` holds what each call returned, `pre` the predicate before the *)
(* last call.  An AllPredicate is fed the same elements; `all` holds what  *)
(* it returned.                                                            *)
(***************************************************************************)
InitPred ==
  /\ \E input \in SlicesUpTo(MaxInput) :
       pred = [pc |-> "feed", input |-> input, pos |-> 0,
               st |-> SingleEntryDefault, results |-> <<>>,
               pre |-> SingleEntryDefault, all |-> <<>>]
  /\ print = PrintQueueNew(<<>>)
  /\ QueueIdle
  /\ printer = IdlePrinter
  /\ twin = IdleTwin

Feed ==
  /\ pred.pc = "feed"
  /\ pred.pos < Len(pred.input)
  /\ LET r == SingleEntryIsEnd(pred.st, pred.input[pred.pos + 1])
         a == AllIsEnd(AllPredicate, pred.input[pred.pos + 1])
     IN
       pred' = [pred EXCEPT !.pos = pred.pos + 1,
                            !.st = r.st,
                            !.results = Append(pred.results, r.res),
                            !.pre = pred.st,
                            !.all = Append(pred.all, a.res)]
  /\ UNCHANGED <<print, fits, iter, last, snapshot, shadow, pushes, printer, twin>>

NextPred == Feed

SpecPred == InitPred /\ [][NextPred]_vars

\* The position of the entry end tag that closes the entry opened by the
\* first element of input (0 if there is none): the first position at which
\* the entry tags up to it balance.
EntryEndOf(input) ==
  LET closing == {j \in 1..Len(input) : Balance(SubSeq(input, 1, j), "Entry") = 0}
  IN IF input = <<>> \/ closing = {} THEN 0
     ELSE CHOOSE j \in closing : \A k \in closing : j <= k

(***************************************************************************)
(* C10. Single-entry predicate termination: fed, from its default state, a *)
(* sequence that starts with an entry start tag, the predicate answers     *)
(* "continue" to every element before the entry end tag that brings the    *)
(* depth back to zero, the end tags of nested entries included, and "stop" *)
(* at that tag.                                                            *)
(***************************************************************************)
SingleEntryStopsAtEnd ==
  (pred.pc = "feed" /\ pred.input # <<>> /\ pred.input[1] = StartEntry) =>
    LET j == EntryEndOf(pred.input) IN
    \A k \in 1..pred.pos :
      /\ (j = 0 \/ k < j) => pred.results[k] = Ok(FALSE)
      /\ k = j => pred.results[k] = Ok(TRUE) /\ (pred.pos = j => SingleEntryIsDone(pred.st))

\* [StartEntry, StartEntry, EndEntry, EndEntry]: continue three times, then stop
SingleEntryWitness ==
  /\ pred.pc = "feed"
  /\ pred.input = <<StartEntry, StartEntry, EndEntry, EndEntry>>
  /\ pred.pos = 4
  /\ pred.results = <<Ok(FALSE), Ok(FALSE), Ok(FALSE), Ok(TRUE)>>

\* The last call of is_end: the element it was given and what it returned.
Fed == pred.pc = "feed" /\ pred.pos > 0
FedElement == pred.input[pred.pos]
FedResult == pred.results[pred.pos]

(***************************************************************************)
(* C11. The done state is absorbing: once is_end has returned "stop",      *)
(* is_done() is true, and every later call, whatever its element, returns  *)
(* "stop" without failing and leaves the predicate done.                   *)
(***************************************************************************)
DoneIsAbsorbing ==
  Fed =>
    /\ FedResult = Ok(TRUE) => SingleEntryIsDone(pred.st)
    /\ SingleEntryIsDone(pred.pre) =>
         /\ FedResult = Ok(TRUE)
         /\ SingleEntryIsDone(pred.st)
    /\ \A k \in 1..pred.pos : pred.results[k] = Ok(TRUE) =>
         \A l \in k..pred.pos : pred.results[l] = Ok(TRUE)

\* [StartEntry, EndEntry, EndEntry, Interned(1)]: done at the second element,
\* then an entry end tag and an interned reference
DoneIsAbsorbingWitness ==
  /\ Fed
  /\ pred.input = <<StartEntry, EndEntry, EndEntry, Interned(1)>>
  /\ pred.pos = 4
  /\ SingleEntryIsDone(pred.pre)
  /\ pred.results = <<Ok(FALSE), Ok(TRUE), Ok(TRUE), Ok(TRUE)>>

(***************************************************************************)
(* C12. Invalid end tag: an entry end tag given to a predicate that is not *)
(* done and whose depth is zero yields the "invalid end tag" failure for   *)
(* the kind Entry, and neither "stop" nor "continue".                      *)
(***************************************************************************)
EndEntryAtDepthZeroFails ==
  (Fed /\ ~SingleEntryIsDone(pred.pre) /\ pred.pre.depth = 0 /\ FedElement = EndEntry) =>
    /\ FedResult = InvalidEndTag("Entry", None)
    /\ ~FedResult.ok
    /\ pred.st = pred.pre

\* the input [EndEntry] from the default state
EndEntryAtDepthZeroWitness ==
  /\ Fed
  /\ pred.input = <<EndEntry>>
  /\ pred.pre = SingleEntryDefault
  /\ pred.results = <<InvalidEndTag("Entry", None)>>

(***************************************************************************)
(* C13. Invalid start tag: a token, or a tag that is no entry tag, given   *)
(* to a predicate that is not done yields, at depth zero, the "invalid     *)
(* start tag" failure for the kind Entry carrying the element, and, at a   *)
(* depth above zero, "continue".                                           *)
(***************************************************************************)
IsOtherElement(element) ==
  element # StartEntry /\ element # EndEntry /\ element.type # "Interned"

OtherElementAtDepthZeroFails ==
  (Fed /\ ~SingleEntryIsDone(pred.pre) /\ IsOtherElement(FedElement)) =>
    /\ pred.pre.depth = 0 => FedResult = InvalidStartTag("Entry", Some(FedElement))
    /\ pred.pre.depth > 0 => FedResult = Ok(FALSE)
    /\ pred.st = pred.pre

\* [StartGroup, StartEntry, StartGroup]: the group tag fails at depth zero
\* and continues inside the entry
OtherElementAtDepthZeroWitness ==
  /\ Fed
  /\ pred.input = <<StartGroup, StartEntry, StartGroup>>
  /\ pred.pos = 3
  /\ pred.pre = [done |-> FALSE, depth |-> 1]
  /\ pred.results = <<InvalidStartTag("Entry", Some(StartGroup)), Ok(FALSE), Ok(FALSE)>>

(***************************************************************************)
(* C14. Interned references are transparent to the predicate: given to a   *)
(* predicate that is not done, at any depth, an interned reference yields  *)
(* "continue" and leaves the depth as it was.                              *)
(***************************************************************************)
InternedIsTransparent ==
  (Fed /\ ~SingleEntryIsDone(pred.pre) /\ FedElement.type = "Interned") =>
    /\ FedResult = Ok(FALSE)
    /\ pred.st = pred.pre

\* an interned reference at depth zero, and then one at depth one
InternedIsTransparentWitness ==
  /\ Fed
  /\ pred.input = <<Interned(2), StartEntry, Interned(1)>>
  /\ pred.pos = 3
  /\ pred.pre = [done |-> FALSE, depth |-> 1]
  /\ pred.results = <<Ok(FALSE), Ok(FALSE), Ok(FALSE)>>

(***************************************************************************)
(* C15. AllPredicate never stops and never fails: whatever the elements it *)
(* has been given, and whatever the element, is_end returns "continue".    *)
(***************************************************************************)
AllNeverStops ==
  pred.pc = "feed" =>
    /\ Len(pred.all) = pred.pos
    /\ \A k \in 1..pred.pos : pred.all[k] = Ok(FALSE)

\* four calls, an unmatched entry end tag among the elements
AllNeverStopsWitness ==
  /\ pred.pc = "feed"
  /\ pred.input = <<StartEntry, EndEntry, EndEntry, Token("a")>>
  /\ pred.all = <<Ok(FALSE), Ok(FALSE), Ok(FALSE), Ok(FALSE)>>

(***************************************************************************)
(* C28. A failing call leaves the predicate as it was: after an invalid    *)
(* end tag or invalid start tag failure it is still not done and at depth  *)
(* zero, and an entry start tag that follows is accepted: "continue", and  *)
(* the depth is one.                                                       *)
(***************************************************************************)
FailureLeavesPredicate ==
  Fed =>
    /\ ~FedResult.ok =>
         /\ pred.st = pred.pre
         /\ pred.st = [done |-> FALSE, depth |-> 0]
         /\ ~SingleEntryIsDone(pred.st)
    /\ (pred.pos >= 2 /\ ~pred.results[pred.pos - 1].ok /\ FedElement = StartEntry) =>
         /\ FedResult = Ok(FALSE)
         /\ pred.st = [done |-> FALSE, depth |-> 1]

\* [EndEntry, Token("a"), StartEntry]: two failures, then the start tag
FailureLeavesPredicateWitness ==
  /\ Fed
  /\ pred.input = <<EndEntry, Token("a"), StartEntry>>
  /\ pred.pos = 3
  /\ pred.results = <<InvalidEndTag("Entry", None),
                      InvalidStartTag("Entry", Some(Token("a"))), Ok(FALSE)>>
  /\ pred.st = [done |-> FALSE, depth |-> 1]

(***************************************************************************)
(* The queue calls and the feeding of a predicate side by side: a          *)
(* behaviour is either one of Spec or one of SpecPred.                     *)
(***************************************************************************)
InitDepth == Init \/ InitPred

NextDepth ==
  \/ pred.pc = "idle" /\ Next
  \/ NextPred

SpecDepth == InitDepth /\ [][NextDepth]_vars

(***************************************************************************)
(* C29. The depth counters never underflow: a content iterator pops only   *)
(* at a depth of at least one, its depth goes down by one only from a      *)
(* depth of at least one, and reaches zero only when the iteration ends;   *)
(* the single-entry predicate's depth goes down by one only from a depth   *)
(* of at least one; neither is ever below zero.                            *)
(***************************************************************************)
DepthNeverUnderflows ==
  /\ iter.depth >= 0
  /\ iter.sdepth >= 0
  /\ last.depth >= 0
  /\ last.op = "next" =>
       /\ Mem # last.pre => last.depth >= 1
       /\ iter.depth < last.depth =>
            /\ last.depth >= 1
            /\ iter.depth = last.depth - 1
       /\ (last.depth > 0 /\ iter.depth = 0) => (last.res = None /\ last.panic = "")
  /\ pred.pc = "feed" =>
       /\ pred.st.depth >= 0
       /\ pred.pre.depth >= 0
       /\ pred.st.depth < pred.pre.depth =>
            /\ pred.pre.depth >= 1
            /\ pred.st.depth = pred.pre.depth - 1

\* an iterator that went from depth 2 to depth 1 at a nested end tag
DepthWitness ==
  /\ last.op = "next"
  /\ last.depth = 2
  /\ iter.depth = 1
  /\ last.res = Some(Tag(last.kind, FALSE))

(***************************************************************************)
(* C22. The two fatal conditions of a malformed document.  An entry end    *)
(* tag, or content, met by the single-entry predicate at depth zero is a   *)
(* failure value that names the kind Entry and, for content, the element.  *)
(* The exhaustion of the queue under a content iterator that still expects *)
(* its end tag is a panic with the message "Missing end signal.": the call *)
(* returns no value, and the message names neither kind nor element.       *)
(***************************************************************************)
IterExhausted ==
  \/ last.op = "next" /\ last.depth > 0 /\ Flatten(PopAll(last.pre, Callee)) = <<>>
  \/ last.op = "skip_content"
       /\ ~Matched(PopAll(last.pre, Callee), last.kind, 1, <<>>).found

FatalConditionsReported ==
  /\ IterExhausted =>
       /\ last.panic = "Missing end signal."
       /\ last.res = None
  /\ (last.op \in {"next", "skip_content"} /\ last.panic # "") => IterExhausted
  /\ \A element \in Elements \cup {HardLine} :
       LET r == SingleEntryIsEnd(SingleEntryDefault, element).res IN
         /\ element = EndEntry => r = InvalidEndTag("Entry", None)
         /\ IsOtherElement(element) => r = InvalidStartTag("Entry", Some(element))
         /\ ~r.ok => r.kind = "Entry"

\* skip_content(Group) on the queue [StartGroup, Token("a")]
FatalConditionsWitness ==
  /\ last.op = "skip_content"
  /\ last.kind = "Group"
  /\ last.pre.print = PrintQueueNew(<<StartGroup, Token("a")>>)
  /\ last.panic = "Missing end signal."

\* The statement with both conditions as failure values: the call of the
\* iterator returns to its caller.
FatalConditionsAreResults ==
  IterExhausted => last.panic = ""

(***************************************************************************)
(* The fit check: elements are popped from a FitsQueue built on the print  *)
(* queue; a forced line break, or a token that takes the width past the    *)
(* maximum, ends it with "does not fit"; an interned reference is queued   *)
(* in front of the rest; then the predicate is asked, and its stop, or the *)
(* exhaustion of the queue, ends it with "fits".                           *)
(***************************************************************************)
TextWidth(text) == 1

PredicateIsEnd(p, st, element) ==
  IF p = "all" THEN AllIsEnd(st, element) ELSE SingleEntryIsEnd(st, element)

RECURSIVE FitsLoop(_, _, _, _, _)
FitsLoop(m, p, st, width, max_width) ==
  LET r == Pop(m, "fits") IN
  IF r.panic # "" THEN "panic"
  ELSE IF r.res = None THEN "fits"
  ELSE
    LET element == r.res[1] IN
    IF element.type = "Line" THEN "does not fit"
    ELSE IF element.type = "Token" /\ width + TextWidth(element.text) > max_width
      THEN "does not fit"
    ELSE
      LET e == IF element.type = "Interned"
                 THEN ExtendBack(r.m, "fits", Pool[element.id])
                 ELSE Ret(r.m, None)
          used == IF element.type = "Token" THEN width + TextWidth(element.text) ELSE width
          q == PredicateIsEnd(p, st, element)
      IN
        IF e.panic # "" THEN "panic"
        ELSE IF ~q.res.ok THEN q.res.error
        ELSE IF q.res.end THEN "fits"
        ELSE FitsLoop(e.m, p, q.st, used, max_width)

PredicateNew(p) == IF p = "all" THEN AllPredicate ELSE SingleEntryDefault

FitsCheck(pq, p, max_width) ==
  FitsLoop([print |-> pq, fits |-> FitsQueueNew(pq, <<>>)], p, PredicateNew(p), 0, max_width)

(***************************************************************************)
(* Interning: two documents, docB holding an interned reference where docA *)
(* holds the referenced sequence itself.  Both are popped in step with the *)
(* interned loop of the content iterator (pop; while the element is        *)
(* interned, extend_back its content and pop again), and both are measured *)
(* by fit checks at the same points.                                       *)
(***************************************************************************)
FitElements == Elements \cup {HardLine}

NoFitCheck == [p |-> "", max_width |-> 0, at |-> 0, a |-> "", b |-> ""]

InitIntern ==
  /\ \E docB \in SlicesOver(FitElements, MaxDoc) :
       \E at \in 1..Len(docB) :
         /\ docB[at].type = "Interned"
         /\ LET docA == SubSeq(docB, 1, at - 1) \o Pool[docB[at].id]
                          \o SubSeq(docB, at + 1, Len(docB))
            IN twin = [pc |-> "pop", docA |-> docA, docB |-> docB,
                       a |-> PrintQueueNew(docA), b |-> PrintQueueNew(docB),
                       outA |-> <<>>, outB |-> <<>>, fit |-> NoFitCheck]
  /\ print = PrintQueueNew(<<>>)
  /\ QueueIdle
  /\ printer = IdlePrinter
  /\ pred = IdlePred

TwinPop ==
  /\ twin.pc = "pop"
  /\ LET ra == ExpandInterned(Pop(PrintOnly(twin.a), "print"), "print")
         rb == ExpandInterned(Pop(PrintOnly(twin.b), "print"), "print")
     IN twin' = [twin EXCEPT
                   !.a = ra.m.print,
                   !.b = rb.m.print,
                   !.outA = Append(twin.outA, ra.res),
                   !.outB = Append(twin.outB, rb.res),
                   !.pc = IF ra.panic # "" \/ rb.panic # "" THEN "panic"
                          ELSE IF ra.res = None /\ rb.res = None THEN "done"
                          ELSE "pop"]
  /\ UNCHANGED <<print, fits, iter, last, snapshot, shadow, pushes, printer, pred>>

TwinFits ==
  /\ twin.pc = "pop"
  /\ \E p \in {"all", "single"}, max_width \in 0..MaxWidth :
       twin' = [twin EXCEPT !.fit = [p |-> p, max_width |-> max_width,
                                     at |-> Len(twin.outA),
                                     a |-> FitsCheck(twin.a, p, max_width),
                                     b |-> FitsCheck(twin.b, p, max_width)]]
  /\ UNCHANGED <<print, fits, iter, last, snapshot, shadow, pushes, printer, pred>>

NextIntern ==
  \/ TwinPop
  \/ TwinFits

SpecIntern == InitIntern /\ [][NextIntern]_vars

(***************************************************************************)
(* C6. Interning transparency: a document with an interned reference in    *)
(* place of an equal sub-sequence (the referenced sequence may itself      *)
(* start with an interned reference) gives the same elements in the same   *)
(* order, exhaustion at the same pop, and the same fit-check outcomes.     *)
(***************************************************************************)
InterningTransparent ==
  twin.pc # "idle" =>
    /\ twin.pc # "panic"
    /\ twin.outA = twin.outB
    /\ twin.fit.a = twin.fit.b

\* [StartEntry, Interned(3)], where Pool[3] starts with Interned(2): popped to
\* exhaustion after a single-entry fit check at its start reported "fits"
InterningWitness ==
  /\ twin.pc = "done"
  /\ twin.docB = <<StartEntry, Interned(3)>>
  /\ twin.docA = <<StartEntry, Interned(2), Token("c")>>
  /\ Len(twin.outB) = 5
  /\ twin.fit.p = "single"
  /\ twin.fit.at = 0
  /\ twin.fit.max_width = 1
  /\ twin.fit.b = "fits"

(***************************************************************************)
(* What a fit check has measured: in the state that follows a fit check,   *)
(* queue `a` is still the queue it ran on; Remaining is what that queue    *)
(* holds, interned references inlined.                                     *)
(***************************************************************************)
Measured == twin.pc = "pop" /\ twin.fit.p # "" /\ twin.fit.at = Len(twin.outA)

Remaining == Flatten(PopAll(PrintOnly(twin.a), "print"))

\* the columns the tokens of R take
RECURSIVE Width(_)
Width(R) ==
  IF R = <<>> THEN 0
  ELSE (IF Head(R).type = "Token" THEN TextWidth(Head(R).text) ELSE 0) + Width(Tail(R))

\* what the single-entry predicate lets through of R: R up to the entry end
\* tag that closes its first entry, all of R if there is none
UpToEntryEnd(R) ==
  IF EntryEndOf(R) = 0 THEN R ELSE SubSeq(R, 1, EntryEndOf(R))

HasHardLine(R) == \E k \in 1..Len(R) : R[k] = HardLine

(***************************************************************************)
(* C23. Width budget: with the whole-remainder predicate and the maximum   *)
(* width W, a fit check over tokens only reports "fits" when their width   *)
(* is at most W and "does not fit" when it is above W; whatever else the   *)
(* queue holds, a fit check does not report "fits" when the tokens met     *)
(* before the predicate stops are wider than W.                            *)
(***************************************************************************)
WidthBudget ==
  Measured =>
    LET R == Remaining
        W == twin.fit.max_width
    IN
      /\ (twin.fit.p = "all" /\ \A k \in 1..Len(R) : R[k].type = "Token") =>
           /\ Width(R) <= W => twin.fit.a = "fits"
           /\ Width(R) > W => twin.fit.a = "does not fit"
      /\ (twin.fit.p = "all" /\ Width(R) > W) => twin.fit.a = "does not fit"
      /\ (twin.fit.p = "single" /\ R # <<>> /\ R[1] = StartEntry
            /\ Width(UpToEntryEnd(R)) > W) => twin.fit.a = "does not fit"

\* two tokens measured at the width 2: the total is exactly the maximum
WidthBudgetWitness ==
  /\ Measured
  /\ twin.docA = <<Token("a"), Token("a")>>
  /\ twin.fit.p = "all"
  /\ twin.fit.at = 0
  /\ twin.fit.max_width = 2
  /\ twin.fit.a = "fits"

(***************************************************************************)
(* C24. Forced break: a fit check that pops a forced line break before its *)
(* predicate has stopped reports "does not fit", whatever the width so     *)
(* far; a forced line break after the element at which the predicate stops *)
(* does not change the outcome.                                            *)
(***************************************************************************)
ForcedBreakDoesNotFit ==
  Measured =>
    LET R == Remaining
        W == twin.fit.max_width
    IN
      /\ (twin.fit.p = "all" /\ HasHardLine(R)) => twin.fit.a = "does not fit"
      /\ (R # <<>> /\ R[1] = HardLine) => twin.fit.a = "does not fit"
      /\ (twin.fit.p = "single" /\ R # <<>> /\ R[1] = StartEntry) =>
           /\ HasHardLine(UpToEntryEnd(R)) => twin.fit.a = "does not fit"
           /\ (EntryEndOf(R) > 0 /\ ~HasHardLine(UpToEntryEnd(R))
                 /\ Width(UpToEntryEnd(R)) <= W) => twin.fit.a = "fits"

\* [Token("a"), HardLine] measured at the width 2: one column used when the
\* forced break is met
ForcedBreakWitness ==
  /\ Measured
  /\ twin.docA = <<Token("a"), HardLine>>
  /\ twin.fit.p = "all"
  /\ twin.fit.at = 0
  /\ twin.fit.max_width = 2
  /\ twin.fit.a = "does not fit"

(***************************************************************************)
(* FitsQueue::new with saved frames: the print queue is popped any number  *)
(* of times, a FitsQueue is built on it from a vector of saved frames      *)
(* (non-empty slices, as the frames of a queue are), and the FitsQueue is  *)
(* read with top_with_interned and pop.                                    *)
(***************************************************************************)
SavedStacks ==
  UNION {[1..n -> SlicesUpTo(MaxLen) \ {<<>>}] : n \in 0..MaxSaved}

DoFitsNewSaved ==
  /\ CanCall
  /\ ~fits.live
  /\ \E saved \in SavedStacks :
       /\ fits' = FitsQueueNew(print, saved)
       /\ last' = [Call("fits_new", saved, "", Ret(Mem, None), Ret(ShadowMem, None))
                     EXCEPT !.self = "fits"]
  /\ snapshot' = print
  /\ shadow' = print
  /\ UNCHANGED <<print, iter, pushes, others>>

NextSaved ==
  \/ DoPop
  \/ DoTopWithInterned
  \/ DoFitsNewSaved

SpecSaved == Init /\ [][NextSaved]_vars

(***************************************************************************)
(* C26. The index a FitsQueue starts with, copied from the print queue, is *)
(* a position in the FitsQueue's top frame and that of its next element,   *)
(* whatever the saved frames: the first top_with_interned or pop does not  *)
(* fail on the index, and with saved frames it returns the first element   *)
(* of the last saved frame.                                                *)
(***************************************************************************)
SavedStartIndexValid ==
  /\ (fits.live /\ last.op = "fits_new") => IndexValid(Mem, "fits")
  /\ (last.op \in {"pop", "top_with_interned"} /\ Callee = "fits") =>
       LET saved == FitsFinish(last.pre.fits) IN
         /\ last.panic = ""
         /\ (saved # <<>> /\ last.pre.fits = FitsQueueNew(last.pre.print, saved)) =>
              last.res = Some(saved[Len(saved)][1])

====
